---- MODULE Spec2Model ----
(***************************************************************************)
(* Model of the UEFI Terse Executable loader, teloader.py                  *)
(* (class TerseExecutableView).                                            *)
(*                                                                         *)
(* The state is the raw parent view (a byte sequence), the result of the   *)
(* format detector, the locals of init() and everything init() registers   *)
(* with the host: segments, sections, user types, data variables, symbols  *)
(* and entry points.  The host calls are modelled as append-only           *)
(* registrations of the arguments the code passes.  Python integers are    *)
(* unbounded, so no operation of the loader wraps; the inputs keep the     *)
(* high bytes of the 32 and 64 bit fields zero so that every value stays   *)
(* inside TLC's integers.                                                  *)
(***************************************************************************)
EXTENDS Integers, Sequences, FiniteSets, TLC

VARIABLES
    raw,              \* self.raw: the bytes of the parent view
    headers,          \* number of files glob finds in headers/*.h
    pc,               \* position of the host in the validate/load sequence
    valid,            \* what is_valid_for_data returned ("none" before the call)
    platform,         \* self.platform ("None" while unset)
    machine,          \* init local
    stripped_size,    \* init local
    header_ofs,       \* init local
    image_base,       \* init local
    num_of_sections,  \* init local
    segments,         \* add_auto_segment calls, in order
    sections,         \* add_auto_section calls, in order
    types,            \* names given to define_user_type
    data_vars,        \* define_user_data_var calls, in order
    symbols,          \* define_user_symbol calls, in order
    entry_points,     \* add_entry_point calls, in order
    function_types,   \* prototypes assigned to the function at the entry point
    result,           \* outcome of init: "none", "True" or the exception raised
    gep               \* what perform_get_entry_point returned ("none" before the call)

vars == <<raw, headers, pc, valid, platform, machine, stripped_size, header_ofs,
          image_base, num_of_sections, segments, sections, types, data_vars,
          symbols, entry_points, function_types, result, gep>>

-----------------------------------------------------------------------------
(* Program constants *)

TERSE_IMAGE_HEADER_SIZE == 40

SECTION_HEADER_SIZE == 40

(* Bounds of the model *)

\* the section tables of the inputs hold up to MaxSections records
MaxSections == 3

\* glob finds up to MaxHeaders header files
MaxHeaders == 1

-----------------------------------------------------------------------------
(* Python primitives the loader uses *)

Min(a, b) == IF a < b THEN a ELSE b

\* data[a:b] on bytes or on a BinaryView: clipped to the data, never an error
Slice(data, a, b) == SubSeq(data, a + 1, Min(b, Len(data)))

\* little-endian value of a byte string
RECURSIVE LEVal(_)
LEVal(bytes) == IF bytes = <<>> THEN 0 ELSE Head(bytes) + 256 * LEVal(Tail(bytes))

\* struct.unpack('<H' | '<I' | '<Q', bytes)[0]: unsigned, and struct.error
\* unless the buffer has exactly the size of the format
Unpack(width, bytes) ==
    IF Len(bytes) = width
    THEN [ok |-> TRUE, val |-> LEVal(bytes)]
    ELSE [ok |-> FALSE, val |-> 0]

\* list(range(start, stop, step)) for step > 0
PyRange(start, stop, step) ==
    LET n == IF stop > start THEN (stop - start + step - 1) \div step ELSE 0
    IN  [k \in 1..n |-> start + (k - 1) * step]

(* bytes.decode('utf-8', errors) *)

IsCont(b) == b >= 128 /\ b <= 191

\* length of the sequence a lead byte announces, 0 for a byte that cannot lead
Utf8Need(b) ==
    IF b < 128 THEN 1
    ELSE IF b >= 194 /\ b <= 223 THEN 2
    ELSE IF b >= 224 /\ b <= 239 THEN 3
    ELSE IF b >= 240 /\ b <= 244 THEN 4
    ELSE 0

Utf8SecondOk(b0, b1) ==
    IF b0 = 224 THEN b1 >= 160 /\ b1 <= 191
    ELSE IF b0 = 237 THEN b1 >= 128 /\ b1 <= 159
    ELSE IF b0 = 240 THEN b1 >= 144 /\ b1 <= 191
    ELSE IF b0 = 244 THEN b1 >= 128 /\ b1 <= 143
    ELSE IsCont(b1)

\* number of well-formed continuation bytes after the lead byte at s[i]
Utf8Matched(s, i, need) ==
    LET ok(k) == /\ k < need
                 /\ i + k <= Len(s)
                 /\ IF k = 1 THEN Utf8SecondOk(s[i], s[i + 1]) ELSE IsCont(s[i + k])
    IN  IF ~ok(1) THEN 0 ELSE IF ~ok(2) THEN 1 ELSE IF ~ok(3) THEN 2 ELSE 3

Utf8CodePoint(s, i, need) ==
    IF need = 1 THEN s[i]
    ELSE IF need = 2 THEN (s[i] - 192) * 64 + (s[i + 1] - 128)
    ELSE IF need = 3 THEN (s[i] - 224) * 4096 + (s[i + 1] - 128) * 64 + (s[i + 2] - 128)
    ELSE (s[i] - 240) * 262144 + (s[i + 1] - 128) * 4096
         + (s[i + 2] - 128) * 64 + (s[i + 3] - 128)

\* decoding from s[i] on; errors is "strict" (UnicodeDecodeError on the first
\* ill-formed sequence) or "replace" (U+FFFD for each ill-formed sequence)
RECURSIVE Utf8DecodeFrom(_, _, _)
Utf8DecodeFrom(s, i, errors) ==
    IF i > Len(s) THEN [ok |-> TRUE, chars |-> <<>>]
    ELSE LET need == Utf8Need(s[i])
             m    == Utf8Matched(s, i, need)
         IN  IF need > 0 /\ m = need - 1
             THEN LET rest == Utf8DecodeFrom(s, i + need, errors)
                  IN  [ok |-> rest.ok, chars |-> <<Utf8CodePoint(s, i, need)>> \o rest.chars]
             ELSE IF errors = "strict"
             THEN [ok |-> FALSE, chars |-> <<>>]
             ELSE LET rest == Utf8DecodeFrom(s, i + 1 + m, errors)
                  IN  [ok |-> rest.ok, chars |-> <<65533>> \o rest.chars]

Utf8Decode(s, errors) == Utf8DecodeFrom(s, 1, errors)

\* the string 'VZ' as code points
STR_VZ == <<86, 90>>

-----------------------------------------------------------------------------
(* The loader's functions *)

\* is_valid_for_data with a seeded fault: the length test is missing
IsValidForData_NoLengthTest(data) ==
    Utf8Decode(Slice(data, 0, 2), "replace").chars = STR_VZ

\* is_valid_for_data
IsValidForData(data) ==
    IF Len(data) < TERSE_IMAGE_HEADER_SIZE THEN FALSE
    ELSE IF Utf8Decode(Slice(data, 0, 2), "replace").chars # STR_VZ THEN FALSE
    ELSE TRUE

\* _set_platform: the value of self.platform after the call
SetPlatform(machine_type, current) ==
    IF machine_type = 332 THEN "windows-x86"
    ELSE IF machine_type = -31132 THEN "windows-x86_64"
    ELSE IF machine_type = -21916 THEN "windows-aarch64"
    ELSE current

Segment(start, length, data_offset, data_length, flags) ==
    [start |-> start, length |-> length, data_offset |-> data_offset,
     data_length |-> data_length, flags |-> flags]

\* _create_segments with a seeded fault: the code region starts at the base address
CreateSegments_CodeAtBase(base_addr, n, data) ==
    LET headers_size     == TERSE_IMAGE_HEADER_SIZE + n * SECTION_HEADER_SIZE
        code_region_size == Len(data) - headers_size
    IN  << Segment(base_addr, headers_size, 0, headers_size, {"Readable"}),
           Segment(base_addr, code_region_size, headers_size, code_region_size,
                   {"Readable", "Writable", "Executable"}) >>

\* _create_segments: the two add_auto_segment calls
CreateSegments(base_addr, n, data) ==
    LET headers_size     == TERSE_IMAGE_HEADER_SIZE + n * SECTION_HEADER_SIZE
        code_region_size == Len(data) - headers_size
    IN  << Segment(base_addr, headers_size, 0, headers_size, {"Readable"}),
           Segment(base_addr + headers_size, code_region_size, headers_size,
                   code_region_size, {"Readable", "Writable", "Executable"}) >>

\* the add_auto_section call with a seeded fault: the two fields are swapped
Section_Swapped(name, base_addr, virtual_addr, virtual_size) ==
    [name |-> name, start |-> base_addr + virtual_size, length |-> virtual_addr,
     semantics |-> "ReadOnlyCode"]

\* the add_auto_section call of _create_sections
Section(name, base_addr, virtual_addr, virtual_size) ==
    [name |-> name, start |-> base_addr + virtual_addr, length |-> virtual_size,
     semantics |-> "ReadOnlyCode"]

\* the loop of _create_sections with `left` iterations to go, reading at `base`;
\* acc holds the sections added so far.  exc names the exception that ended
\* the loop early.
RECURSIVE SectionsLoop(_, _, _, _, _)
SectionsLoop(base_addr, left, base, data, acc) ==
    IF left = 0 THEN [secs |-> acc, exc |-> "none"]
    ELSE LET name         == Utf8Decode(Slice(data, base, base + 8), "strict")
             virtual_size == Unpack(4, Slice(data, base + 8, base + 12))
             virtual_addr == Unpack(4, Slice(data, base + 12, base + 16))
         IN  IF ~name.ok THEN [secs |-> acc, exc |-> "UnicodeDecodeError"]
             ELSE IF ~virtual_size.ok \/ ~virtual_addr.ok
             THEN [secs |-> acc, exc |-> "struct.error"]
             ELSE SectionsLoop(base_addr, left - 1, base + SECTION_HEADER_SIZE, data,
                      Append(acc, Section(name.chars, base_addr, virtual_addr.val,
                                          virtual_size.val)))

\* _create_sections
CreateSections(base_addr, n, data) ==
    SectionsLoop(base_addr, n, TERSE_IMAGE_HEADER_SIZE, data, <<>>)

\* the symbol name with a seeded fault: the offset from the header start
SectionHdrSymbolName_FromHeader(i) == "gSectionHdr" \o ToString(i)

\* 'gSectionHdr{}'.format(i-40)
SectionHdrSymbolName(i) == "gSectionHdr" \o ToString(i - 40)

\* the offsets the loop of _apply_header_types visits
SectionHdrOffsets(n) ==
    PyRange(TERSE_IMAGE_HEADER_SIZE, n * (SECTION_HEADER_SIZE + 1), SECTION_HEADER_SIZE)

HEADER_TYPES ==
    {"EFI_IMAGE_DATA_DIRECTORY", "EFI_TE_IMAGE_HEADER", "EFI_IMAGE_SECTION_HEADER"}

\* _apply_header_types: the types, data variables and symbols it defines
ApplyHeaderTypes(base_addr, n) ==
    LET ofs == SectionHdrOffsets(n)
    IN  [types     |-> HEADER_TYPES,
         data_vars |-> <<[addr |-> base_addr, type |-> "EFI_TE_IMAGE_HEADER"]>> \o
                       [k \in 1..Len(ofs) |->
                           [addr |-> base_addr + ofs[k], type |-> "EFI_IMAGE_SECTION_HEADER"]],
         symbols   |-> <<[addr |-> base_addr, name |-> "gTEImageHdr"]>> \o
                       [k \in 1..Len(ofs) |->
                           [addr |-> base_addr + ofs[k], name |-> SectionHdrSymbolName(ofs[k])]]]

\* the type the k-th header file defines
HeaderFileType(k) == "HeaderType" \o ToString(k)

\* _import_types_from_headers: self.platform.parse_types_from_source_file is an
\* attribute access on None while no platform is set, on the first file
ImportTypesFromHeaders(nfiles, plat) ==
    IF nfiles > 0 /\ plat = "None"
    THEN [types |-> {}, exc |-> "AttributeError"]
    ELSE [types |-> {HeaderFileType(k) : k \in 1..nfiles}, exc |-> "none"]

ENTRY_PROTOTYPE ==
    "EFI_STATUS ModuleEntryPoint(EFI_PEI_FILE_HANDLE FileHandle, EFI_PEI_SERVICES **PeiServices)"

\* entry_addr with a seeded fault: the header offset is added
InitEntryAddr_WithHeaderOfs(data, base_addr) ==
    Unpack(4, Slice(data, 8, 12)).val + base_addr
    + (Unpack(2, Slice(data, 6, 8)).val - TERSE_IMAGE_HEADER_SIZE)

\* init: entry_addr
InitEntryAddr(data, base_addr) == Unpack(4, Slice(data, 8, 12)).val + base_addr

\* perform_get_entry_point
PerformGetEntryPointValue(data) ==
    LET base_addr == Unpack(8, Slice(data, 16, 24)).val
        entry     == Unpack(4, Slice(data, 8, 12)).val
    IN  base_addr + entry

-----------------------------------------------------------------------------
(* The inputs: TE images laid out as the loader reads them *)

\* the bytes struct.unpack reads back as v
RECURSIVE LEBytes(_, _)
LEBytes(v, width) ==
    IF width = 0 THEN <<>> ELSE <<v % 256>> \o LEBytes(v \div 256, width - 1)

Zeros(n) == [i \in 1..n |-> 0]

\* the 40 bytes of a TE header: Signature, Machine, NumberOfSections, Subsystem,
\* StrippedSize, AddressOfEntryPoint, BaseOfCode, ImageBase, DataDirectory[2]
MkHeader(sig, mach, nsec, stripped, entry, base) ==
    sig \o LEBytes(mach, 2) \o <<nsec, 0>> \o LEBytes(stripped, 2) \o LEBytes(entry, 4)
        \o LEBytes(0, 4) \o LEBytes(base, 8) \o Zeros(16)

\* the 40 bytes of a section header: Name, VirtualSize, VirtualAddress and
\* the six fields the loader never reads
MkSectionHeader(t) ==
    t.name \o LEBytes(t.virtual_size, 4) \o LEBytes(t.virtual_addr, 4) \o Zeros(24)

RECURSIVE MkSectionTable(_)
MkSectionTable(ts) ==
    IF ts = <<>> THEN <<>> ELSE MkSectionHeader(Head(ts)) \o MkSectionTable(Tail(ts))

\* ".text" padded with NULs
SEC_TEXT == [name |-> <<46, 116, 101, 120, 116, 0, 0, 0>>,
             virtual_size |-> 16, virtual_addr |-> 96]

\* a name that is not UTF-8: 0xFF "data"
SEC_BAD_NAME == [name |-> <<255, 100, 97, 116, 97, 0, 0, 0>>,
                 virtual_size |-> 8, virtual_addr |-> 512]

SectionTemplates == {SEC_TEXT, SEC_BAD_NAME}

\* the smallest table for which n*(SECTION_HEADER_SIZE+1) passes the next slot
BigSections == SECTION_HEADER_SIZE + 1

SectionTables ==
    UNION {[1..n -> SectionTemplates] : n \in 0..MaxSections}
    \cup {[k \in 1..BigSections |-> SEC_TEXT]}

\* NumberOfSections as the header declares it, whatever the table holds
DeclaredSections == (0..(MaxSections + 1)) \cup {BigSections - 1, BigSections, 255}

\* 'VZ', 'VY', 'MZ', 'vz', U+00E9 and an ill-formed pair
Signatures == {<<86, 90>>, <<86, 89>>, <<77, 90>>, <<118, 122>>, <<195, 169>>, <<255, 90>>}

\* x86, x86-64, AArch64 and an unknown machine
Machines == {332, 34404, 43620, 0}

\* no stripping, a stripped PE header, and a size below the TE header's own
StrippedSizes == {40, 440, 24}

EntryPoints == {0, 16}

ImageBases == {0, 4096}

\* bytes that follow the section table
TailSizes == {0, 20}

\* lengths around the header size, for the detector
DetectorLengths == {0, 1, 2, 39, 40, 41}

LoaderInputs ==
    { MkHeader(<<86, 90>>, m, n, s, e, b) \o MkSectionTable(ts)
          \o SubSeq(MkSectionHeader(SEC_TEXT), 1, tl) :
        m \in Machines, n \in DeclaredSections, s \in StrippedSizes, e \in EntryPoints,
        b \in ImageBases, ts \in SectionTables, tl \in TailSizes }

DetectorInputs ==
    { SubSeq(MkHeader(sig, 332, 0, 40, 16, 4096) \o <<144>>, 1, n) :
        sig \in Signatures, n \in DetectorLengths }

-----------------------------------------------------------------------------
(* The host's calls *)

Init ==
    /\ raw \in LoaderInputs \cup DetectorInputs
    /\ headers \in 0..MaxHeaders
    /\ pc = "new"
    /\ valid = "none"
    /\ platform = "None"
    /\ machine = 0
    /\ stripped_size = 0
    /\ header_ofs = 0
    /\ image_base = 0
    /\ num_of_sections = 0
    /\ segments = <<>>
    /\ sections = <<>>
    /\ types = {}
    /\ data_vars = <<>>
    /\ symbols = <<>>
    /\ entry_points = <<>>
    /\ function_types = {}
    /\ result = "none"
    /\ gep = <<>>

\* the host asks the view type whether it accepts the data
IsValidForDataCall ==
    /\ pc = "new"
    /\ valid' = IF IsValidForData(raw) THEN "True" ELSE "False"
    /\ pc' = IF IsValidForData(raw) THEN "accepted" ELSE "rejected"
    /\ UNCHANGED <<raw, headers, platform, machine, stripped_size, header_ofs, image_base,
                   num_of_sections, segments, sections, types, data_vars, symbols,
                   entry_points, function_types, result, gep>>

\* init: machine and _set_platform
InitSetPlatform ==
    /\ pc = "accepted"
    /\ machine' = Unpack(2, Slice(raw, 2, 4)).val
    /\ platform' = SetPlatform(machine', platform)
    /\ pc' = "platform_set"
    /\ UNCHANGED <<raw, headers, valid, stripped_size, header_ofs, image_base,
                   num_of_sections, segments, sections, types, data_vars, symbols,
                   entry_points, function_types, result, gep>>

\* init: stripped_size, header_ofs, image_base, num_of_sections
InitReadHeader ==
    /\ pc = "platform_set"
    /\ stripped_size' = Unpack(2, Slice(raw, 6, 8)).val
    /\ header_ofs' = stripped_size' - TERSE_IMAGE_HEADER_SIZE
    /\ image_base' = Unpack(8, Slice(raw, 16, 24)).val
    /\ num_of_sections' = raw[5]
    /\ pc' = "header_read"
    /\ UNCHANGED <<raw, headers, valid, platform, machine, segments, sections, types,
                   data_vars, symbols, entry_points, function_types, result, gep>>

\* init: _create_segments(image_base+header_ofs, num_of_sections)
InitCreateSegments ==
    /\ pc = "header_read"
    /\ segments' = segments \o CreateSegments(image_base + header_ofs, num_of_sections, raw)
    /\ pc' = "segments_created"
    /\ UNCHANGED <<raw, headers, valid, platform, machine, stripped_size, header_ofs,
                   image_base, num_of_sections, sections, types, data_vars, symbols,
                   entry_points, function_types, result, gep>>

\* init: _create_sections(image_base, num_of_sections); an exception leaves init
InitCreateSections ==
    /\ pc = "segments_created"
    /\ LET r == CreateSections(image_base, num_of_sections, raw)
       IN  /\ sections' = sections \o r.secs
           /\ pc' = IF r.exc = "none" THEN "sections_created" ELSE "raised"
           /\ result' = IF r.exc = "none" THEN result ELSE r.exc
    /\ UNCHANGED <<raw, headers, valid, platform, machine, stripped_size, header_ofs,
                   image_base, num_of_sections, segments, types, data_vars, symbols,
                   entry_points, function_types, gep>>

\* init: _apply_header_types(image_base+header_ofs, num_of_sections)
InitApplyHeaderTypes ==
    /\ pc = "sections_created"
    /\ LET r == ApplyHeaderTypes(image_base + header_ofs, num_of_sections)
       IN  /\ types' = types \cup r.types
           /\ data_vars' = data_vars \o r.data_vars
           /\ symbols' = symbols \o r.symbols
    /\ pc' = "types_applied"
    /\ UNCHANGED <<raw, headers, valid, platform, machine, stripped_size, header_ofs,
                   image_base, num_of_sections, segments, sections, entry_points,
                   function_types, result, gep>>

\* init: _import_types_from_headers(); an exception leaves init
InitImportTypes ==
    /\ pc = "types_applied"
    /\ LET r == ImportTypesFromHeaders(headers, platform)
       IN  /\ types' = types \cup r.types
           /\ pc' = IF r.exc = "none" THEN "types_imported" ELSE "raised"
           /\ result' = IF r.exc = "none" THEN result ELSE r.exc
    /\ UNCHANGED <<raw, headers, valid, platform, machine, stripped_size, header_ofs,
                   image_base, num_of_sections, segments, sections, data_vars, symbols,
                   entry_points, function_types, gep>>

\* init: entry_addr, _set_entry_point_prototype(entry_addr), return True.
\* add_entry_point and the function_type assignment are recorded as called;
\* what the host does with them while no platform is set is not part of the loader.
InitSetEntryPoint ==
    /\ pc = "types_imported"
    /\ LET entry_addr == InitEntryAddr(raw, image_base)
       IN  /\ entry_points' = Append(entry_points, entry_addr)
           /\ function_types' = function_types \cup
                                  {[addr |-> entry_addr, type |-> ENTRY_PROTOTYPE]}
    /\ result' = "True"
    /\ pc' = "done"
    /\ UNCHANGED <<raw, headers, valid, platform, machine, stripped_size, header_ofs,
                   image_base, num_of_sections, segments, sections, types, data_vars,
                   symbols, gep>>

\* the host asks for the entry point: before init, or after init has returned
\* or raised (the host runs one call at a time)
PerformGetEntryPoint ==
    /\ pc \in {"accepted", "done", "raised"}
    /\ gep = <<>>
    /\ gep' = <<PerformGetEntryPointValue(raw)>>
    /\ UNCHANGED <<raw, headers, pc, valid, platform, machine, stripped_size, header_ofs,
                   image_base, num_of_sections, segments, sections, types, data_vars,
                   symbols, entry_points, function_types, result>>

Next ==
    \/ IsValidForDataCall
    \/ InitSetPlatform
    \/ InitReadHeader
    \/ InitCreateSegments
    \/ InitCreateSections
    \/ InitApplyHeaderTypes
    \/ InitImportTypes
    \/ InitSetEntryPoint
    \/ PerformGetEntryPoint

Spec == Init /\ [][Next]_vars

-----------------------------------------------------------------------------
(* The header and section fields of section 6's binary layout, read from the *)
(* raw bytes: the vocabulary of the properties below                         *)

HdrMachine == LEVal(SubSeq(raw, 3, 4))

HdrNumberOfSections == raw[5]

HdrStrippedSize == LEVal(SubSeq(raw, 7, 8))

HdrEntryPoint == LEVal(SubSeq(raw, 9, 12))

HdrImageBase == LEVal(SubSeq(raw, 17, 24))

\* headerOfs and the address of the bound header instance
HdrOfs == HdrStrippedSize - 40

HeaderStart == HdrImageBase + HdrOfs

\* fields of the k-th section header, k = 0, 1, ...
SecVirtualSize(k) == LEVal(SubSeq(raw, 40 + 40 * k + 9, 40 + 40 * k + 12))

SecVirtualAddress(k) == LEVal(SubSeq(raw, 40 + 40 * k + 13, 40 + 40 * k + 16))

SecNameDecodes(k) == Utf8Decode(SubSeq(raw, 40 + 40 * k + 1, 40 + 40 * k + 8), "strict").ok

HeaderRegionSize == 40 + HdrNumberOfSections * 40

\* the header declares more sections than the buffer holds
Truncated == HeaderRegionSize > Len(raw)

Accepted == valid = "True"

\* init has ended, by returning or by raising
LoadEnded == pc \in {"done", "raised"}

SegmentsStepDone ==
    pc \in {"segments_created", "sections_created", "types_applied", "types_imported",
            "done", "raised"}

PlatformStepDone == Accepted /\ pc # "accepted"

\* the section-header instances the annotator bound: all but the header's own
BoundSectionHeaders == SubSeq(data_vars, 2, Len(data_vars))

BoundSectionSymbols == SubSeq(symbols, 2, Len(symbols))

-----------------------------------------------------------------------------
(* C1: is_valid_for_data returns true exactly for the buffers of at least 40 *)
(* bytes whose first two bytes are "VZ"; false for every shorter buffer,     *)
(* true whatever the other bytes are.                                        *)
C1_ValidIffLengthAndSignature ==
    valid # "none" =>
        ((valid = "True") <=> (Len(raw) >= 40 /\ raw[1] = 86 /\ raw[2] = 90))

\* a buffer of exactly 40 bytes starting with "VZ" was accepted
C1_Witness == valid = "True" /\ Len(raw) = 40 /\ raw[1] = 86 /\ raw[2] = 90

(* C2: on an accepted buffer whose header declares more sections than the    *)
(* buffer holds, init fails, and when it fails no segment and no section     *)
(* has been registered.                                                      *)
C2_TruncatedLoadFailsClean ==
    (Accepted /\ Truncated) =>
        /\ pc # "done"
        /\ LoadEnded => (segments = <<>> /\ sections = <<>>)

(* C3: init registers exactly two segments; the header segment has size      *)
(* 40 + numberOfSections*40 at file offset 0, the code segment starts where   *)
(* the header segment ends, in address and in file offset, and the two sizes  *)
(* sum to the buffer length; when the section table fits the buffer, the two  *)
(* sizes are non-negative, so the segments cover the buffer with no gap and   *)
(* no overlap.                                                                *)
C3_TwoSegmentsPartitionBuffer ==
    /\ ~SegmentsStepDone => segments = <<>>
    /\ SegmentsStepDone =>
        /\ Len(segments) = 2
        /\ segments[1].start = HeaderStart
        /\ segments[1].length = HeaderRegionSize
        /\ segments[1].data_offset = 0
        /\ segments[1].data_length = segments[1].length
        /\ segments[2].start = segments[1].start + segments[1].length
        /\ segments[2].data_offset = segments[1].data_offset + segments[1].data_length
        /\ segments[2].length = Len(raw) - HeaderRegionSize
        /\ segments[2].data_length = segments[2].length
        /\ segments[1].length + segments[2].length = Len(raw)
        /\ ~Truncated => (segments[1].length >= 40 /\ segments[2].length >= 0)

\* a load that returned, with a section table, a code region and a header offset
C3_Witness ==
    /\ pc = "done"
    /\ Len(segments) = 2
    /\ HdrNumberOfSections >= 1
    /\ segments[2].length > 0
    /\ HdrOfs # 0

(* C4: the platform init chooses is x86 for machine 332 (0x014C), x86-64 for  *)
(* the bit pattern 0x8664, AArch64 for 0xAA64, and unresolved otherwise.      *)
C4_PlatformByMachine ==
    PlatformStepDone =>
        platform = (IF HdrMachine = 332 THEN "windows-x86"
                    ELSE IF HdrMachine = 34404 THEN "windows-x86_64"
                    ELSE IF HdrMachine = 43620 THEN "windows-aarch64"
                    ELSE "None")

(* C5: the entry point init registers and the value perform_get_entry_point   *)
(* returns are both imageBase + addressOfEntryPoint, whatever strippedSize    *)
(* is, and so agree; a load that returns has registered exactly one.          *)
C5_EntryIsBasePlusEntryPoint ==
    /\ \A k \in 1..Len(entry_points) : entry_points[k] = HdrImageBase + HdrEntryPoint
    /\ \A k \in 1..Len(gep) : gep[k] = HdrImageBase + HdrEntryPoint
    /\ (entry_points # <<>> /\ gep # <<>>) => entry_points[1] = gep[1]
    /\ pc = "done" => Len(entry_points) = 1

\* both operations have answered on an image with a header offset
C5_Witness ==
    /\ pc = "done"
    /\ gep # <<>>
    /\ entry_points # <<>>
    /\ HdrOfs # 0
    /\ HdrEntryPoint # 0
    /\ HdrImageBase # 0

(* C6: for an accepted buffer that holds its whole section table, the number  *)
(* of sections init has emitted when it ends is numberOfSections.             *)
C6_SectionCountIsNumberOfSections ==
    (Accepted /\ ~Truncated /\ LoadEnded) => Len(sections) = HdrNumberOfSections

(* C7: for an accepted buffer that holds its whole section table and whose    *)
(* machine is none of the three recognized codes, init leaves the platform    *)
(* unresolved and runs to completion: segments, sections, header types and    *)
(* the entry point are registered and init returns True, also when header     *)
(* files are found.                                                           *)
C7_UnknownMachineNotFatal ==
    (/\ Accepted
     /\ ~Truncated
     /\ \A k \in 0..(HdrNumberOfSections - 1) : SecNameDecodes(k)
     /\ HdrMachine \notin {332, 34404, 43620}
     /\ LoadEnded) =>
        /\ pc = "done"
        /\ result = "True"
        /\ platform = "None"
        /\ Len(segments) = 2
        /\ data_vars # <<>>
        /\ Len(entry_points) = 1

(* C8: the annotator binds exactly numberOfSections section-header instances, *)
(* the k-th at headerStart + 40 + 40*k, none beyond and none missing.         *)
C8_OneInstancePerSectionSlot ==
    data_vars # <<>> =>
        /\ data_vars[1].addr = HeaderStart
        /\ Len(BoundSectionHeaders) = HdrNumberOfSections
        /\ \A k \in 0..(Len(BoundSectionHeaders) - 1) :
               /\ BoundSectionHeaders[k + 1].addr = HeaderStart + 40 + 40 * k
               /\ BoundSectionHeaders[k + 1].type = "EFI_IMAGE_SECTION_HEADER"

(* C9, as claimed: the section-header instance bound at headerStart + d is    *)
(* labelled with the number d.                                                *)
C9_LabelIsOffsetFromHeaderStart ==
    \A k \in 1..Len(BoundSectionSymbols) :
        /\ BoundSectionSymbols[k].addr = BoundSectionHeaders[k].addr
        /\ BoundSectionSymbols[k].name =
               "gSectionHdr" \o ToString(BoundSectionSymbols[k].addr - HeaderStart)

(* C9, amended: the section-header instance bound at headerStart + d is       *)
(* labelled gSectionHdr<d - 40>, its offset from the end of the 40-byte TE    *)
(* header, so the first section header is gSectionHdr0.                       *)
C9_LabelIsOffsetFromSectionTable ==
    /\ Len(symbols) = Len(data_vars)
    /\ \A k \in 1..Len(BoundSectionSymbols) :
        /\ BoundSectionSymbols[k].addr = BoundSectionHeaders[k].addr
        /\ BoundSectionSymbols[k].name =
               "gSectionHdr" \o ToString(BoundSectionSymbols[k].addr - HeaderStart - 40)

\* two section headers were bound and labelled
C9_Witness ==
    /\ Len(BoundSectionSymbols) >= 2
    /\ BoundSectionSymbols[1].name = "gSectionHdr0"
    /\ BoundSectionSymbols[2].name = "gSectionHdr40"
    /\ BoundSectionSymbols[2].addr = HeaderStart + 80

(* C10: the header segment and the bound header instance start at             *)
(* imageBase + headerOfs, headerOfs = strippedSize - 40, while every section  *)
(* starts at imageBase + virtualAddress with size virtualSize: headerOfs is   *)
(* never added to a section's address.                                        *)
C10_TwoAddressingBases ==
    /\ segments # <<>> => segments[1].start = HdrImageBase + (HdrStrippedSize - 40)
    /\ data_vars # <<>> => data_vars[1].addr = HdrImageBase + (HdrStrippedSize - 40)
    /\ \A k \in 1..Len(sections) :
        /\ sections[k].start = HdrImageBase + SecVirtualAddress(k - 1)
        /\ sections[k].length = SecVirtualSize(k - 1)

\* a load that returned on an image with a header offset and two sections
C10_Witness ==
    /\ pc = "done"
    /\ HdrStrippedSize # 40
    /\ Len(sections) >= 2
    /\ segments[1].start # HdrImageBase
    /\ data_vars[1].addr = segments[1].start
    /\ sections[1].start = HdrImageBase + SecVirtualAddress(0)

====
